---- MODULE Spec2Model ----
(***************************************************************************)
(* Model of the collaborative multi-field text editor:                     *)
(*   - Position algebra        (src/src/types/CRDT.ts)                     *)
(*   - CRDTEngine              (field engine)                              *)
(*   - UndoRedoManager         (batching, undo and redo stacks)            *)
(*   - MultiFieldCRDTEngine    (one engine per field, routing)             *)
(*   - FirebaseService and the useMultiFieldCRDT hook (replication)        *)
(*                                                                         *)
(* A position string is modelled by its dot-separated parts: the integer   *)
(* text before the first dot (ip, with m0 marking the text "-0"), the      *)
(* optional numeric second part (sub: "0", "5" or "" when absent) and the  *)
(* client id.  These are all the strings generatePosition can build from   *)
(* positions it built itself.                                              *)
(*                                                                         *)
(* Wall-clock time is modelled by what the code asks of it.  For an open   *)
(* batch, batchExpired is the value of                                     *)
(*     Date.now() - batchStartTime > batchTimeout                          *)
(* and batchTimer tells whether the pending setTimeout of the field has    *)
(* reached its delay ("due": its callback may run) or not ("pending").     *)
(* The timer is set when the batch is opened and set again at every        *)
(* addition, so a batch that got no addition after it was opened expires   *)
(* only once its timer is due.                                             *)
(*                                                                         *)
(* Specifications:                                                         *)
(*   Spec         one client calls the multi-field engine on one field,    *)
(*                is handed operations of the other user, and time passes  *)
(*   SpecTrack    the same client, with the other user's operations also   *)
(*                offered to the undo manager directly                     *)
(*   SpecFields   the same client on the two fields, one character value   *)
(*   SpecTimer    the same client alone on one field, with a fair timer    *)
(*   SpecRebuild  the calls that reach one field engine, rebuildContent    *)
(*                among them                                               *)
(*   SpecSync     two clients of the hook, replicated through the log      *)
(*   SpecPublish  two clients of the hook whose pushes may be refused      *)
(*   SpecSession  one session of the hook from construction to cleanup,    *)
(*                with the other user's operations arriving in the log     *)
(*   SpecPresence the sessions of both users, their presence records, the  *)
(*                clock and the presence callbacks                         *)
(*   SpecSessionFair  the same session with its callbacks run in the end   *)
(*   SpecPerm     two fresh engines given one set of operations in any     *)
(*                order                                                    *)
(***************************************************************************)
EXTENDS Integers, Sequences, FiniteSets, TLC

\* ------------------------------------------------------------------ bounds
\* ids handed out by generateOperationId / generateCharId in one run
MaxId == 3
\* UndoRedoConfig.maxUndoSteps of the modelled instance (the shipped
\* configuration passes 50; the value is a constructor parameter)
MaxUndoSteps == 2

Fields == {"content", "title"}
Chars == {"a", "b"}
Clients == {"A", "B"}
LocalUser == "A"
RemoteUser == "B"

\* ---------------------------------------------------------------- positions
NoPos == [ip |-> 0, m0 |-> FALSE, sub |-> "null", cid |-> ""]

Pos(ip, sub, cid) == [ip |-> ip, m0 |-> FALSE, sub |-> sub, cid |-> cid]

\* `${num - 1}.0.${clientId}` with num = parseFloat(pos.split('.')[0])
generateBefore(pos, clientId) == Pos(pos.ip - 1, "0", clientId)

\* `${num + 1}.0.${clientId}`
generateAfter(pos, clientId) == Pos(pos.ip + 1, "0", clientId)

\* midNum = prevNum + (nextNum - prevNum) / 2, printed as `${midNum}.${clientId}`:
\* an integer midpoint prints as "m.c" (two parts), a half-integer one as
\* "k.5.c" where k is the midpoint truncated towards zero ("-0" for -0.5).
generateBetween(prev, next, clientId) ==
    LET s == prev.ip + next.ip
    IN  IF s % 2 = 0
        THEN Pos(s \div 2, "", clientId)
        ELSE [ip  |-> IF s > 0 THEN s \div 2 ELSE -((-s) \div 2),
              m0  |-> (s = -1),
              sub |-> "5",
              cid |-> clientId]

generatePosition(prevPos, nextPos, clientId) ==
    IF prevPos = NoPos /\ nextPos = NoPos THEN Pos(1, "0", clientId)
    ELSE IF prevPos = NoPos THEN generateBefore(nextPos, clientId)
    ELSE IF nextPos = NoPos THEN generateAfter(prevPos, clientId)
    ELSE generateBetween(prevPos, nextPos, clientId)

\* a.localeCompare(b) on client ids (ids are compared as plain text)
CidRank(c) == IF c = "A" THEN 1 ELSE IF c = "B" THEN 2 ELSE 3

CidCompare(a, b) == CidRank(a) - CidRank(b)

\* a.localeCompare(b) for two position strings with equal numeric part and
\* the same format: "-0" sorts before "0", then the second part, then the id.
localeCompare(a, b) ==
    IF a.m0 # b.m0 THEN (IF a.m0 THEN -1 ELSE 1)
    ELSE IF a.sub # b.sub THEN (IF a.sub = "0" THEN -1 ELSE 1)
    ELSE CidCompare(a.cid, b.cid)

comparePositions(a, b) ==
    IF a.ip # b.ip THEN a.ip - b.ip
    ELSE IF a.sub # "" /\ b.sub = "" THEN 1
    ELSE IF a.sub = "" /\ b.sub # "" THEN -1
    ELSE localeCompare(a, b)

\* ------------------------------------------------------------- CRDTEngine
\* A character map is a sequence in Map insertion order; an operation log
\* is a sequence in arrival order.
NewEngine == [characters |-> <<>>, operations |-> <<>>]

NoChar == 0

RECURSIVE SortByPosition(_)
\* Array.prototype.sort with comparePositions (stable: equal keys keep the
\* order of the Map)
SortByPosition(s) ==
    IF s = <<>> THEN <<>>
    ELSE LET t == SortByPosition(SubSeq(s, 1, Len(s) - 1))
             x == s[Len(s)]
             k == Cardinality({i \in 1..Len(t) :
                                 comparePositions(t[i].position, x.position) <= 0})
         IN  SubSeq(t, 1, k) \o <<x>> \o SubSeq(t, k + 1, Len(t))

IsVisible(c) == ~c.deleted

getSortedVisibleChars(characters) ==
    SortByPosition(SelectSeq(characters, IsVisible))

getVisibleContent(characters) ==
    LET v == getSortedVisibleChars(characters)
    IN  [i \in 1..Len(v) |-> v[i].char]

\* Map.prototype.set: an existing key keeps its place
MapSet(characters, c) ==
    IF \E i \in 1..Len(characters) : characters[i].id = c.id
    THEN [i \in 1..Len(characters) |->
            IF characters[i].id = c.id THEN c ELSE characters[i]]
    ELSE Append(characters, c)

\* sortedChars[i]?.position || null, for a zero-based index i
PositionAt(sorted, i) ==
    IF i >= 0 /\ i < Len(sorted) THEN sorted[i + 1].position ELSE NoPos

\* applyInsert that brings back a tombstoned character of the same position
\* and value instead of storing a new one
applyInsert_Revive(characters, operation, charId) ==
    LET same == {i \in 1..Len(characters) :
                   /\ characters[i].deleted
                   /\ characters[i].position = operation.position
                   /\ characters[i].char = operation.char}
    IN  IF same # {}
        THEN [characters EXCEPT ![CHOOSE i \in same : TRUE].deleted = FALSE]
        ELSE MapSet(characters, [id       |-> charId,
                                 char     |-> operation.char,
                                 position |-> operation.position,
                                 clientId |-> operation.clientId,
                                 deleted  |-> FALSE])

applyInsert(characters, operation, charId) ==
    MapSet(characters, [id       |-> charId,
                        char     |-> operation.char,
                        position |-> operation.position,
                        clientId |-> operation.clientId,
                        deleted  |-> FALSE])

\* index of the character a delete operation resolves to, 0 when it has to
\* be created: Map.get(charId), else the first character in Map order with
\* the same position and value
DeleteTarget(characters, operation) ==
    LET byId  == {i \in 1..Len(characters) : characters[i].id = operation.charId}
        byPos == {i \in 1..Len(characters) :
                    /\ characters[i].position = operation.position
                    /\ characters[i].char = operation.char}
        Min(S) == CHOOSE m \in S : \A n \in S : m <= n
    IN  IF byId # {} THEN Min(byId)
        ELSE IF byPos # {} THEN Min(byPos)
        ELSE 0

\* applyDelete that takes the character out of the Map instead of marking it
applyDelete_Remove(characters, operation) ==
    LET t == DeleteTarget(characters, operation)
    IN  IF t # 0
        THEN SubSeq(characters, 1, t - 1) \o SubSeq(characters, t + 1, Len(characters))
        ELSE characters

\* applyDelete that drops a delete whose character it does not find
applyDelete_SkipMissing(characters, operation) ==
    LET t == DeleteTarget(characters, operation)
    IN  IF t # 0
        THEN [characters EXCEPT ![t].deleted = TRUE]
        ELSE characters

applyDelete(characters, operation) ==
    LET t == DeleteTarget(characters, operation)
    IN  IF t # 0
        THEN [characters EXCEPT ![t].deleted = TRUE]
        ELSE Append(characters, [id       |-> operation.charId,
                                 char     |-> operation.char,
                                 position |-> operation.position,
                                 clientId |-> operation.clientId,
                                 deleted  |-> TRUE])

HasOperation(engine, id) ==
    \E i \in 1..Len(engine.operations) : engine.operations[i].id = id

\* applyOperation without the check for an id that is already logged
applyOperation_NoDedup(engine, operation, charId) ==
    [characters |-> IF operation.type = "insert"
                    THEN applyInsert(engine.characters, operation, charId)
                    ELSE applyDelete(engine.characters, operation),
     operations |-> Append(engine.operations, operation)]

\* charId is the id generateCharId returns if applyInsert has to create the
\* character (insertChar passes the character it built with that id)
applyOperation(engine, operation, charId) ==
    IF HasOperation(engine, operation.id) THEN engine
    ELSE [characters |-> IF operation.type = "insert"
                         THEN applyInsert(engine.characters, operation, charId)
                         ELSE applyDelete(engine.characters, operation),
          operations |-> Append(engine.operations, operation)]

\* generateCharId returns a string no other call returns.  The model draws,
\* for the character that replica builds for an operation, an id that is
\* unique to the pair (operation, replica): ids of different replicas for
\* the same insert differ, as they do in the program.
generateCharId(replica, operation) == operation.id * 10 + CidRank(replica)

RECURSIVE applyOperations(_, _, _)
\* operations.forEach(op => applyOperation(op)) on the engine of replica
applyOperations(engine, ops, replica) ==
    IF ops = <<>> THEN engine
    ELSE applyOperations(
            applyOperation(engine, Head(ops), generateCharId(replica, Head(ops))),
            Tail(ops), replica)

\* characters.clear(), then applyOperation for every logged operation; the
\* log itself is not cleared, so each of them is found in it
rebuildContent(engine, replica) ==
    applyOperations([engine EXCEPT !.characters = <<>>], engine.operations, replica)

\* the operation insertChar builds (field is stamped by the multi-field engine)
InsertOperation(engine, field, char, visiblePosition, clientId, id) ==
    LET sortedChars == getSortedVisibleChars(engine.characters)
    IN  [id       |-> id,
         type     |-> "insert",
         field    |-> field,
         position |-> generatePosition(PositionAt(sortedChars, visiblePosition - 1),
                                       PositionAt(sortedChars, visiblePosition),
                                       clientId),
         char     |-> char,
         charId   |-> NoChar,
         clientId |-> clientId]

\* the operation deleteChar builds for an index inside the visible range
DeleteOperation(engine, field, visiblePosition, clientId, id) ==
    LET c == getSortedVisibleChars(engine.characters)[visiblePosition + 1]
    IN  [id       |-> id,
         type     |-> "delete",
         field    |-> field,
         position |-> c.position,
         char     |-> c.char,
         charId   |-> c.id,
         clientId |-> clientId]

DeleteInRange(engine, visiblePosition) ==
    /\ visiblePosition >= 0
    /\ visiblePosition < Len(getSortedVisibleChars(engine.characters))

getStats(engine) ==
    [totalCharacters   |-> Len(engine.characters),
     deletedCharacters |-> Cardinality({i \in 1..Len(engine.characters) :
                                          engine.characters[i].deleted})]

\* -------------------------------------------------------- UndoRedoManager
\* currentBatch = <<>> stands for null, batchTimer = "none" for batchTimeout
\* = null
NewUndoRedoState ==
    [undoStack    |-> <<>>,
     redoStack    |-> <<>>,
     currentBatch |-> <<>>,
     batchExpired |-> FALSE,
     batchTimer   |-> "none"]

\* a finalizeBatch that never shifts the oldest step out
finalizeBatch_NoEvict(state) ==
    IF state.currentBatch = <<>> THEN state
    ELSE [state EXCEPT
            !.undoStack    = Append(state.undoStack, state.currentBatch),
            !.currentBatch = <<>>,
            !.batchExpired = FALSE,
            !.batchTimer   = "none"]

finalizeBatch(state) ==
    IF state.currentBatch = <<>> THEN state
    ELSE LET pushed == Append(state.undoStack, state.currentBatch)
         IN  [state EXCEPT
                !.undoStack    = IF Len(pushed) > MaxUndoSteps
                                 THEN Tail(pushed) ELSE pushed,
                !.currentBatch = <<>>,
                !.batchExpired = FALSE,
                !.batchTimer   = "none"]

shouldBatchOperation(state, operation) ==
    /\ state.currentBatch # <<>>
    /\ ~state.batchExpired
    /\ operation.type = state.currentBatch[Len(state.currentBatch)].type

\* addToBatch that clears the timeout and sets no new one
addToBatch_TimerCleared(state, operation) ==
    [state EXCEPT !.currentBatch = Append(@, operation),
                  !.batchTimer   = "none"]

addToBatch(state, operation) ==
    [state EXCEPT !.currentBatch = Append(@, operation),
                  !.batchTimer   = "pending"]

createNewBatch(state, operations) ==
    [finalizeBatch(state) EXCEPT !.currentBatch = operations,
                                 !.batchExpired = FALSE,
                                 !.batchTimer   = "pending"]

\* a clearRedoStack that keeps the steps
clearRedoStack_Keep(state) == state

clearRedoStack(state) == [state EXCEPT !.redoStack = <<>>]

\* trackOperation without the test of operation.clientId
trackOperation_AnyClient(state, operation, userId) ==
    clearRedoStack(IF shouldBatchOperation(state, operation)
                   THEN addToBatch(state, operation)
                   ELSE createNewBatch(state, <<operation>>))

trackOperation(state, operation, userId) ==
    IF operation.clientId # userId THEN state
    ELSE clearRedoStack(IF shouldBatchOperation(state, operation)
                        THEN addToBatch(state, operation)
                        ELSE createNewBatch(state, <<operation>>))

generateInverseOperation(operation, userId, id) ==
    IF operation.type = "insert"
    THEN [id       |-> id,
          type     |-> "delete",
          field    |-> operation.field,
          position |-> operation.position,
          char     |-> operation.char,
          charId   |-> -operation.id,     \* `undo_${insertOp.id}`
          clientId |-> userId]
    ELSE [id       |-> id,
          type     |-> "insert",
          field    |-> operation.field,
          position |-> operation.position,
          char     |-> operation.char,
          charId   |-> NoChar,
          clientId |-> userId]

\* generateInverseOperations that walks the step from its first operation on
generateInverseOperations_InOrder(operations, userId, firstId) ==
    [k \in 1..Len(operations) |->
        generateInverseOperation(operations[k], userId, firstId + k - 1)]

\* inverses in reverse order; the k-th returned operation gets id firstId + k - 1
generateInverseOperations(operations, userId, firstId) ==
    [k \in 1..Len(operations) |->
        generateInverseOperation(operations[Len(operations) + 1 - k],
                                 userId, firstId + k - 1)]

createRedoOperations(operations, firstId) ==
    [k \in 1..Len(operations) |-> [operations[k] EXCEPT !.id = firstId + k - 1]]

\* canUndo that counts the open batch as well
canUndo_WithBatch(state) ==
    Len(state.undoStack) > 0 \/ state.currentBatch # <<>>

canUndo(state) == Len(state.undoStack) > 0

canRedo(state) == Len(state.redoStack) > 0

\* an undo that pops the top step and leaves an open batch open
UndoState_KeepBatch(state) ==
    IF Len(state.undoStack) = 0 THEN state
    ELSE [state EXCEPT !.undoStack = SubSeq(@, 1, Len(@) - 1),
                       !.redoStack = Append(@, state.undoStack[Len(state.undoStack)])]

\* UndoRedoManager.undo: the state it leaves and the operations it returns
\* (<<>> stands for null)
UndoState(state) ==
    IF Len(state.undoStack) = 0 THEN state
    ELSE LET f == finalizeBatch(state)
         IN  [f EXCEPT !.undoStack = SubSeq(@, 1, Len(@) - 1),
                       !.redoStack = Append(@, f.undoStack[Len(f.undoStack)])]

UndoStep(state) ==
    IF Len(state.undoStack) = 0 THEN <<>>
    ELSE LET f == finalizeBatch(state) IN f.undoStack[Len(f.undoStack)]

RedoState(state) ==
    IF Len(state.redoStack) = 0 THEN state
    ELSE [state EXCEPT !.redoStack = SubSeq(@, 1, Len(@) - 1),
                       !.undoStack = Append(@, state.redoStack[Len(state.redoStack)])]

RedoStep(state) ==
    IF Len(state.redoStack) = 0 THEN <<>>
    ELSE state.redoStack[Len(state.redoStack)]

\* ------------------------------------------------------------------- state
VARIABLES
    engines,         \* MultiFieldCRDTEngine.engines of every client
    undoRedoStates,  \* UndoRedoManager.undoRedoStates of every client
    nextId,          \* next id generateOperationId hands out
    last,            \* history: the call that produced the current state
    opset,           \* the operation set handed to the two fresh engines
    log,             \* documents/<id>/operations on the server, by timestamp
    stamps,          \* the timestamp the server gave to each entry of the log
    outbox,          \* pushes of every client the server has not received
    service,         \* the FirebaseService of every client
    delivered,       \* history: the calls of onOperationReceived of every client
    presence,        \* documents/<id>/presence on the server, by user id
    now,             \* Date.now() and the server clock, in milliseconds
    participants     \* what the presence callback last handed to every client

\* the presence records, the clock and the reported participants
presenceVars == <<presence, now, participants>>

\* the variables the editing calls of one client leave alone
others == <<opset, log, stamps, outbox, service, delivered, presenceVars>>

vars == <<engines, undoRedoStates, nextId, last, opset, log, stamps, outbox,
          service, delivered, presence, now, participants>>

\* getFieldContent(field) of client c when its engines are e[c]
ContentOf(e, c, f) == getVisibleContent(e[c][f].characters)

Content(c, f) == ContentOf(engines, c, f)

\* ids of the visible characters in display order
VisibleIdsOf(e, c, f) ==
    LET v == getSortedVisibleChars(e[c][f].characters)
    IN  [i \in 1..Len(v) |-> v[i].id]

NoOp == [id |-> 0, type |-> "none", field |-> "", position |-> NoPos,
         char |-> "", charId |-> NoChar, clientId |-> ""]

\* the history record: which call ran (act), on which client and field, with
\* which index, character and operation (op: the operation the call built or
\* was handed, NoOp when it returned null; idx of an undo or a redo: the
\* number of operations it returned); dup: applyOperation was handed an
\* id its engine had logged; pre0: the content a deleteChar or an undo
\* found; chained: a redo that directly follows an undo of the same field
\* which returned operations, pre0 then being the content before that undo
History(act, c, f, idx, char, op, dup, chained, pre0) ==
    [act     |-> act,
     client  |-> c,
     field   |-> f,
     idx     |-> idx,
     char    |-> char,
     op      |-> op,
     dup     |-> dup,
     chained |-> chained,
     pre0    |-> pre0]

\* a FirebaseService after its constructor; phase is the point the
\* initialisation effect of the hook has reached: "new" (get not answered),
\* "reading" (snapshot received), "loaded" (loadAllOperations resolved),
\* "synced" (the callback of its then has run: startSync and setupPresence).
\* listening: the operations listener is in this.listeners; heartbeat: so
\* is the release of the presence interval; cleaned: cleanup() has run
NewService ==
    [processedOperations    |-> {},
     initialLoadComplete    |-> FALSE,
     lastProcessedTimestamp |-> 0,
     phase                  |-> "new",
     snapshot               |-> <<>>,
     listening              |-> FALSE,
     heartbeat              |-> FALSE,
     cleaned                |-> FALSE]

\* the presence path of a user nobody has written yet
NoPresence ==
    [isOnline |-> FALSE, cursorPosition |-> 0, activeField |-> "",
     isTyping |-> FALSE, lastSeen |-> 0, written |-> FALSE]

InitCore ==
    /\ log = <<>>
    /\ stamps = <<>>
    /\ outbox = [c \in Clients |-> <<>>]
    /\ service = [c \in Clients |-> NewService]
    /\ engines = [c \in Clients |-> [f \in Fields |-> NewEngine]]
    /\ undoRedoStates = [c \in Clients |-> [f \in Fields |-> NewUndoRedoState]]
    /\ nextId = 1
    /\ last = History("init", "", "", 0, "", NoOp, FALSE, FALSE, <<>>)
    /\ delivered = [c \in Clients |-> <<>>]
    /\ participants = [c \in Clients |-> <<>>]

\* no presence record yet, the clock at zero
InitPresence ==
    /\ presence = [c \in Clients |-> NoPresence]
    /\ now = 0

\* --------------------------------------------------- MultiFieldCRDTEngine
\* an insertChar that tracks its operation in the undo state of "content"
\* whatever the field
InsertChar_SharedBatch(c, f, char, visiblePosition) ==
    /\ nextId <= MaxId
    /\ LET op == InsertOperation(engines[c][f], f, char, visiblePosition, c, nextId)
       IN  /\ engines' = [engines EXCEPT
                            ![c][f] = applyOperation(@, op, generateCharId(c, op))]
           /\ undoRedoStates' = [undoRedoStates EXCEPT
                                   ![c]["content"] = trackOperation(@, op, c)]
           /\ last' = History("insertChar", c, f, visiblePosition, char, op,
                              FALSE, FALSE, <<>>)
    /\ nextId' = nextId + 1
    /\ UNCHANGED others

\* insertChar(field, char, position): engine.insertChar, then trackOperation
InsertChar(c, f, char, visiblePosition) ==
    /\ nextId <= MaxId
    /\ LET op == InsertOperation(engines[c][f], f, char, visiblePosition, c, nextId)
       IN  /\ engines' = [engines EXCEPT
                            ![c][f] = applyOperation(@, op, generateCharId(c, op))]
           /\ undoRedoStates' = [undoRedoStates EXCEPT
                                   ![c][f] = trackOperation(@, op, c)]
           /\ last' = History("insertChar", c, f, visiblePosition, char, op,
                              FALSE, FALSE, <<>>)
    /\ nextId' = nextId + 1
    /\ UNCHANGED others

\* a deleteChar that clamps its index into the visible range instead of
\* refusing it
DeleteChar_Clamped(c, f, visiblePosition) ==
    LET n == Len(Content(c, f))
        k == IF visiblePosition < 0 THEN 0
             ELSE IF visiblePosition >= n THEN n - 1 ELSE visiblePosition
    IN  /\ nextId <= MaxId
        /\ IF n > 0
           THEN LET op == DeleteOperation(engines[c][f], f, k, c, nextId)
                IN  /\ engines' = [engines EXCEPT
                                     ![c][f] = applyOperation(@, op, generateCharId(c, op))]
                    /\ undoRedoStates' = [undoRedoStates EXCEPT
                                            ![c][f] = trackOperation(@, op, c)]
                    /\ last' = History("deleteChar", c, f, visiblePosition, "", op,
                                       FALSE, FALSE, Content(c, f))
                    /\ nextId' = nextId + 1
           ELSE /\ last' = History("deleteChar", c, f, visiblePosition, "", NoOp,
                                   FALSE, FALSE, <<>>)
                /\ UNCHANGED <<engines, undoRedoStates, nextId>>
        /\ UNCHANGED others

\* deleteChar(field, position): null and no change outside the visible range
DeleteChar(c, f, visiblePosition) ==
    /\ nextId <= MaxId
    /\ IF DeleteInRange(engines[c][f], visiblePosition)
       THEN LET op == DeleteOperation(engines[c][f], f, visiblePosition, c, nextId)
            IN  /\ engines' = [engines EXCEPT
                                 ![c][f] = applyOperation(@, op, generateCharId(c, op))]
                /\ undoRedoStates' = [undoRedoStates EXCEPT
                                        ![c][f] = trackOperation(@, op, c)]
                /\ last' = History("deleteChar", c, f, visiblePosition, "", op,
                                   FALSE, FALSE, Content(c, f))
                /\ nextId' = nextId + 1
       ELSE /\ last' = History("deleteChar", c, f, visiblePosition, "", NoOp,
                               FALSE, FALSE, <<>>)
            /\ UNCHANGED <<engines, undoRedoStates, nextId>>
    /\ UNCHANGED others

\* an applyOperation that hands an operation of an undeclared field to the
\* engine of "content"
ApplyOperation_DefaultField(c, operation) ==
    LET f == IF operation.field \in Fields THEN operation.field ELSE "content"
    IN  /\ engines' = [engines EXCEPT ![c][f] =
                          applyOperation(@, operation, generateCharId(c, operation))]
        /\ last' = History("applyOperation", c, operation.field, 0, "", operation,
                           /\ operation.field \in Fields
                           /\ HasOperation(engines[c][operation.field], operation.id),
                           FALSE, <<>>)
        /\ UNCHANGED <<undoRedoStates, nextId, others>>

\* applyOperation(operation): routed by operation.field, dropped with a
\* warning when no engine has that name; never tracked for undo
ApplyOperation(c, operation) ==
    /\ IF operation.field \in Fields
       THEN engines' = [engines EXCEPT ![c][operation.field] =
                          applyOperation(@, operation, generateCharId(c, operation))]
       ELSE UNCHANGED engines
    /\ last' = History("applyOperation", c, operation.field, 0, "", operation,
                       /\ operation.field \in Fields
                       /\ HasOperation(engines[c][operation.field], operation.id),
                       FALSE, <<>>)
    /\ UNCHANGED <<undoRedoStates, nextId, others>>

\* undo(field): UndoRedoManager.undo, then every returned operation applied
\* (an undo may start while ids remain; it draws one id per operation of
\* its step)
Undo(c, f) ==
    LET state == undoRedoStates[c][f]
        step  == UndoStep(state)
        ops   == generateInverseOperations(step, c, nextId)
    IN  /\ (nextId <= MaxId \/ step = <<>>)
        /\ undoRedoStates' = [undoRedoStates EXCEPT ![c][f] = UndoState(state)]
        /\ engines' = [engines EXCEPT ![c][f] = applyOperations(@, ops, c)]
        /\ nextId' = nextId + Len(step)
        /\ last' = History("undo", c, f, Len(ops), "", NoOp, FALSE, FALSE,
                           Content(c, f))
        /\ UNCHANGED others

\* redo(field): UndoRedoManager.redo, then every returned operation applied
Redo(c, f) ==
    LET state == undoRedoStates[c][f]
        step  == RedoStep(state)
        ops   == createRedoOperations(step, nextId)
    IN  /\ nextId + Len(step) - 1 <= MaxId
        /\ undoRedoStates' = [undoRedoStates EXCEPT ![c][f] = RedoState(state)]
        /\ engines' = [engines EXCEPT ![c][f] = applyOperations(@, ops, c)]
        /\ nextId' = nextId + Len(step)
        /\ last' = IF /\ last.act = "undo"
                      /\ last.client = c
                      /\ last.field = f
                      /\ last.idx > 0
                      /\ step # <<>>
                   THEN History("redo", c, f, Len(ops), "", NoOp, FALSE, TRUE,
                                last.pre0)
                   ELSE History("redo", c, f, Len(ops), "", NoOp, FALSE, FALSE,
                                <<>>)
        /\ UNCHANGED others

\* the callback of the pending setTimeout of a field: finalizeBatch(field)
BatchTimerFires(c, f) ==
    /\ undoRedoStates[c][f].batchTimer = "due"
    /\ undoRedoStates' = [undoRedoStates EXCEPT ![c][f] = finalizeBatch(@)]
    /\ last' = History("timer", c, f, 0, "", NoOp, FALSE, FALSE, <<>>)
    /\ UNCHANGED <<engines, nextId, others>>

\* finalizeAllBatches(): the explicit flush
FinalizeAllBatches(c) ==
    /\ \E f \in Fields : undoRedoStates[c][f].currentBatch # <<>>
    /\ undoRedoStates' = [undoRedoStates EXCEPT
                            ![c] = [f \in Fields |-> finalizeBatch(@[f])]]
    /\ last' = History("flush", c, "", 0, "", NoOp, FALSE, FALSE, <<>>)
    /\ UNCHANGED <<engines, nextId, others>>

\* time passes: the delay of the pending timer of a field is reached
BatchTimerDue(c, f) ==
    /\ undoRedoStates[c][f].batchTimer = "pending"
    /\ undoRedoStates' = [undoRedoStates EXCEPT ![c][f].batchTimer = "due"]
    /\ last' = History("time", c, f, 0, "", NoOp, FALSE, FALSE, <<>>)
    /\ UNCHANGED <<engines, nextId, others>>

\* time passes: more than batchTimeout has gone by since the batch of a
\* field was opened.  The timer was set no earlier than that, so either it
\* is due as well or it was set again by a later addition.
BatchExpires(c, f) ==
    /\ undoRedoStates[c][f].currentBatch # <<>>
    /\ ~undoRedoStates[c][f].batchExpired
    /\ \/ undoRedoStates[c][f].batchTimer = "due"
       \/ Len(undoRedoStates[c][f].currentBatch) >= 2
    /\ undoRedoStates' = [undoRedoStates EXCEPT ![c][f].batchExpired = TRUE]
    /\ last' = History("time", c, f, 0, "", NoOp, FALSE, FALSE, <<>>)
    /\ UNCHANGED <<engines, nextId, others>>

\* CRDTEngine.rebuildContent() on the engine of one field
RebuildContent(c, f) ==
    /\ engines' = [engines EXCEPT ![c][f] = rebuildContent(@, c)]
    /\ last' = History("rebuildContent", c, f, 0, "", NoOp, FALSE, FALSE,
                       Content(c, f))
    /\ UNCHANGED <<undoRedoStates, nextId, others>>

\* ------------------------------------------- operations of the other user
\* what the local client can be handed through applyOperation: the remote
\* user's first insert, the remote user's delete of the local user's first
\* character (which that replica holds under its own id), and an operation
\* for a field that is not declared
RemoteOps ==
    { [id |-> 101, type |-> "insert", field |-> "content",
       position |-> Pos(1, "0", RemoteUser), char |-> "a",
       charId |-> NoChar, clientId |-> RemoteUser],
      [id |-> 103, type |-> "delete", field |-> "content",
       position |-> Pos(1, "0", LocalUser), char |-> "a",
       charId |-> 12, clientId |-> RemoteUser],
      [id |-> 105, type |-> "insert", field |-> "comments",
       position |-> Pos(1, "0", RemoteUser), char |-> "a",
       charId |-> NoChar, clientId |-> RemoteUser] }

\* ------------------------------------------------------ one editing client
\* the calls of client c on the fields F with the characters C and the
\* remote operations P, and the passing of time
Edit(c, F, C, P) ==
    \/ \E f \in F, ch \in C :
          \E i \in -1..(Len(Content(c, f)) + 1) : InsertChar(c, f, ch, i)
    \/ \E f \in F :
          \E i \in -1..Len(Content(c, f)) : DeleteChar(c, f, i)
    \/ \E op \in P : ApplyOperation(c, op)
    \/ \E f \in F : Undo(c, f)
    \/ \E f \in F : Redo(c, f)
    \/ \E f \in F : BatchTimerFires(c, f)
    \/ \E f \in F : BatchTimerDue(c, f)
    \/ \E f \in F : BatchExpires(c, f)
    \/ FinalizeAllBatches(c)

Init == InitCore /\ InitPresence /\ opset = {}

Next == Edit(LocalUser, {"content"}, Chars, RemoteOps)

Spec == Init /\ [][Next]_vars

\* one client edits the field "content" on its own, and the timer of the
\* field runs: its delay is reached in the end, and the event loop runs
\* the callback of a timer that is due
NextTimer ==
    \/ \E i \in 0..Len(Content(LocalUser, "content")) :
          InsertChar(LocalUser, "content", "a", i)
    \/ \E i \in 0..(Len(Content(LocalUser, "content")) - 1) :
          DeleteChar(LocalUser, "content", i)
    \/ Undo(LocalUser, "content")
    \/ Redo(LocalUser, "content")
    \/ BatchTimerDue(LocalUser, "content")
    \/ BatchTimerFires(LocalUser, "content")
    \/ BatchExpires(LocalUser, "content")
    \/ FinalizeAllBatches(LocalUser)

SpecTimer ==
    /\ Init
    /\ [][NextTimer]_vars
    /\ WF_vars(BatchTimerDue(LocalUser, "content"))
    /\ WF_vars(BatchTimerFires(LocalUser, "content"))

\* operations of the other user for each of the two fields
FieldOps ==
    { [id |-> 101, type |-> "insert", field |-> "content",
       position |-> Pos(1, "0", RemoteUser), char |-> "a",
       charId |-> NoChar, clientId |-> RemoteUser],
      [id |-> 107, type |-> "insert", field |-> "title",
       position |-> Pos(1, "0", RemoteUser), char |-> "a",
       charId |-> NoChar, clientId |-> RemoteUser] }

\* one client calls the multi-field engine on both fields
NextFields == Edit(LocalUser, Fields, {"a"}, FieldOps)

SpecFields == Init /\ [][NextFields]_vars

\* the calls that reach the engine of one field, rebuildContent among them
NextRebuild ==
    \/ \E ch \in Chars :
          \E i \in 0..Len(Content(LocalUser, "content")) :
             InsertChar(LocalUser, "content", ch, i)
    \/ \E i \in 0..(Len(Content(LocalUser, "content")) - 1) :
          DeleteChar(LocalUser, "content", i)
    \/ \E op \in RemoteOps : ApplyOperation(LocalUser, op)
    \/ RebuildContent(LocalUser, "content")

SpecRebuild == Init /\ [][NextRebuild]_vars

\* UndoRedoManager.trackOperation(operation) called with an operation of
\* the other user (the manager is handed out by getUndoRedoManager()): the
\* clientId test comes first, then the lookup of the field's state
TrackOperation(c, operation) ==
    /\ undoRedoStates' =
          [undoRedoStates EXCEPT
             ![c] = [f \in Fields |->
                       IF f = operation.field
                       THEN trackOperation(@[f], operation, c) ELSE @[f]]]
    /\ last' = History("trackOperation", c, operation.field, 0, "", operation,
                       FALSE, FALSE, <<>>)
    /\ UNCHANGED <<engines, nextId, others>>

\* the local user's edits, undo and redo, with the other user's operations
\* both applied to the engines and offered to the undo manager
NextTrack ==
    \/ \E char \in Chars, i \in 0..Len(Content(LocalUser, "content")) :
          InsertChar(LocalUser, "content", char, i)
    \/ \E i \in 0..(Len(Content(LocalUser, "content")) - 1) :
          DeleteChar(LocalUser, "content", i)
    \/ \E op \in RemoteOps : ApplyOperation(LocalUser, op)
    \/ \E op \in RemoteOps : TrackOperation(LocalUser, op)
    \/ Undo(LocalUser, "content")
    \/ Redo(LocalUser, "content")
    \/ FinalizeAllBatches(LocalUser)

SpecTrack == Init /\ [][NextTrack]_vars

\* ------------------------------------- FirebaseService and the hook
\* ids published by all clients together in one run of the replicated
\* model, which keeps no history of calls (last stays as it is)
MaxPublished == 4

\* MultiFieldCRDTEngine.applyOperation on the engines es of client c
applyRouted(es, operation, c) ==
    IF operation.field \in Fields
    THEN [es EXCEPT ![operation.field] =
             applyOperation(@, operation, generateCharId(c, operation))]
    ELSE es

RECURSIVE applyAllRouted(_, _, _)
applyAllRouted(es, ops, c) ==
    IF ops = <<>> THEN es
    ELSE applyAllRouted(applyRouted(es, Head(ops), c), Tail(ops), c)

Ids(ops) == {ops[k].id : k \in 1..Len(ops)}

\* pushes of one client the server has not yet received when the user of
\* that client makes the next edit
MaxInFlight == 1

\* broadcastOperation for each of ops: marked processed, then pushed
Broadcast(c, ops) ==
    /\ Len(outbox[c]) < MaxInFlight
    /\ service' = [service EXCEPT ![c].processedOperations = @ \cup Ids(ops)]
    /\ outbox' = [outbox EXCEPT ![c] = @ \o ops]
    /\ UNCHANGED <<log, stamps, opset, last, delivered, presenceVars>>

\* serverTimestamp() of an entry stored in a later millisecond than the
\* newest entry of the log
LaterStamp == IF stamps = <<>> THEN 1 ELSE stamps[Len(stamps)] + 1

\* serverTimestamp() of an entry stored in the same millisecond as the
\* newest entry of the log
SameStamp == IF stamps = <<>> THEN 1 ELSE stamps[Len(stamps)]

\* the server receives the oldest push of a client and stamps it
ServerReceive(c) ==
    /\ outbox[c] # <<>>
    /\ log' = Append(log, Head(outbox[c]))
    /\ stamps' = Append(stamps, LaterStamp)
    /\ outbox' = [outbox EXCEPT ![c] = Tail(@)]
    /\ UNCHANGED <<engines, undoRedoStates, nextId, last, opset, delivered,
                   presenceVars, service>>

\* one call of onOperationReceived: the operation, its timestamp and the
\* caller ("load": loadAllOperations, "listen":
\* the onValue callback)
Delivery(operation, ts, via) ==
    [id |-> operation.id, clientId |-> operation.clientId, ts |-> ts, via |-> via]

\* loadAllOperations: the get is answered with the log as it is
LoadRead(c) ==
    /\ service[c].phase = "new"
    /\ service' = [service EXCEPT ![c].phase = "reading", ![c].snapshot = log]
    /\ UNCHANGED <<engines, undoRedoStates, nextId, last, opset, delivered,
                   presenceVars, log, stamps, outbox>>

\* a loadAllOperations that does not mark what it hands out as processed
LoadProcess_NoMark(c) ==
    /\ service[c].phase = "reading"
    /\ LET snap == service[c].snapshot
       IN  /\ engines' = [engines EXCEPT ![c] = applyAllRouted(@, snap, c)]
           /\ delivered' = [delivered EXCEPT ![c] =
                 @ \o [k \in 1..Len(snap) |-> Delivery(snap[k], stamps[k], "load")]]
           /\ service' = [service EXCEPT
                 ![c].phase = "loaded",
                 ![c].snapshot = <<>>,
                 ![c].initialLoadComplete = (snap # <<>>) \/ @,
                 ![c].lastProcessedTimestamp =
                     IF snap # <<>> THEN stamps[Len(snap)] ELSE @]
    /\ UNCHANGED <<undoRedoStates, nextId, last, opset, log, stamps, outbox,
                   presenceVars>>

\* loadAllOperations after the await: every operation of the snapshot is
\* marked and applied; an empty snapshot returns before anything is set
LoadProcess(c) ==
    /\ service[c].phase = "reading"
    /\ LET snap == service[c].snapshot
       IN  /\ engines' = [engines EXCEPT ![c] = applyAllRouted(@, snap, c)]
           /\ delivered' = [delivered EXCEPT ![c] =
                 @ \o [k \in 1..Len(snap) |-> Delivery(snap[k], stamps[k], "load")]]
           /\ service' = [service EXCEPT
                 ![c].phase = "loaded",
                 ![c].snapshot = <<>>,
                 ![c].processedOperations = @ \cup Ids(snap),
                 ![c].initialLoadComplete = (snap # <<>>) \/ @,
                 ![c].lastProcessedTimestamp =
                     IF snap # <<>> THEN stamps[Len(snap)] ELSE @]
    /\ UNCHANGED <<undoRedoStates, nextId, last, opset, log, stamps, outbox,
                   presenceVars>>

\* a startSync that leaves initialLoadComplete as loadAllOperations set it
StartSync_KeepLoaded(c) ==
    /\ service[c].phase = "loaded"
    /\ service' = [service EXCEPT ![c].phase = "synced",
                                  ![c].listening = TRUE,
                                  ![c].heartbeat = TRUE]
    /\ UNCHANGED <<engines, undoRedoStates, nextId, last, opset, delivered,
                   presenceVars, log, stamps, outbox>>

\* the callback of loadAllOperations(...).then: startSync, which attaches
\* the listeners, and setupPresence, which starts the interval
StartSync(c) ==
    /\ service[c].phase = "loaded"
    /\ service' = [service EXCEPT ![c].phase = "synced",
                                  ![c].initialLoadComplete = FALSE,
                                  ![c].listening = TRUE,
                                  ![c].heartbeat = TRUE]
    /\ UNCHANGED <<engines, undoRedoStates, nextId, last, opset, delivered,
                   presenceVars, log, stamps, outbox>>

RECURSIVE ListenerLoop(_, _, _, _)
\* the for loop of the onValue callback from the k-th operation of the
\* snapshot on; st holds the engines and the processed ids of client c and
\* the calls of onOperationReceived made so far
ListenerLoop(st, snap, k, c) ==
    IF k > Len(snap) THEN st
    ELSE LET operation == snap[k]
             marked == [st EXCEPT !.processed = @ \cup {operation.id}]
             applied == [marked EXCEPT
                           !.es  = applyRouted(@, operation, c),
                           !.out = Append(@, Delivery(operation, stamps[k], "listen"))]
         IN  IF operation.id \in st.processed
             THEN ListenerLoop(st, snap, k + 1, c)
             ELSE IF ~service[c].initialLoadComplete
             THEN ListenerLoop(applied, snap, k + 1, c)
             ELSE IF stamps[k] > service[c].lastProcessedTimestamp
             THEN IF operation.clientId = c
                  THEN ListenerLoop(marked, snap, k + 1, c)
                  ELSE ListenerLoop(applied, snap, k + 1, c)
             ELSE ListenerLoop(st, snap, k + 1, c)

\* the onValue callback of listenToOperations runs with the log as it is
ListenerFires(c) ==
    /\ service[c].listening
    /\ \E k \in 1..Len(log) : log[k].id \notin service[c].processedOperations
    /\ LET st == ListenerLoop([es |-> engines[c],
                               processed |-> service[c].processedOperations,
                               out |-> delivered[c]],
                              log, 1, c)
       IN  /\ engines' = [engines EXCEPT ![c] = st.es]
           /\ service' = [service EXCEPT ![c].processedOperations = st.processed]
           /\ delivered' = [delivered EXCEPT ![c] = st.out]
    /\ UNCHANGED <<undoRedoStates, nextId, last, opset, log, stamps, outbox,
                   presenceVars>>

\* insertChar of the hook: the engine's insertChar, then broadcastOperation
HookInsertChar(c, f, char, visiblePosition) ==
    /\ nextId <= MaxPublished
    /\ LET op == InsertOperation(engines[c][f], f, char, visiblePosition, c, nextId)
       IN  /\ engines' = [engines EXCEPT
                            ![c][f] = applyOperation(@, op, generateCharId(c, op))]
           /\ undoRedoStates' = [undoRedoStates EXCEPT
                                   ![c][f] = trackOperation(@, op, c)]
                  /\ Broadcast(c, <<op>>)
    /\ nextId' = nextId + 1

\* deleteChar of the hook: nothing is published when the engine returns null
HookDeleteChar(c, f, visiblePosition) ==
    /\ nextId <= MaxPublished
    /\ DeleteInRange(engines[c][f], visiblePosition)
    /\ LET op == DeleteOperation(engines[c][f], f, visiblePosition, c, nextId)
       IN  /\ engines' = [engines EXCEPT
                            ![c][f] = applyOperation(@, op, generateCharId(c, op))]
           /\ undoRedoStates' = [undoRedoStates EXCEPT
                                   ![c][f] = trackOperation(@, op, c)]
                  /\ Broadcast(c, <<op>>)
    /\ nextId' = nextId + 1

\* undo of the hook: every operation the engine returns is published
HookUndo(c, f) ==
    LET state == undoRedoStates[c][f]
        step  == UndoStep(state)
        ops   == generateInverseOperations(step, c, nextId)
    IN  /\ step # <<>>
        /\ nextId + Len(step) - 1 <= MaxPublished
        /\ undoRedoStates' = [undoRedoStates EXCEPT ![c][f] = UndoState(state)]
        /\ engines' = [engines EXCEPT ![c][f] = applyOperations(@, ops, c)]
        /\ nextId' = nextId + Len(step)
            /\ Broadcast(c, ops)

\* redo of the hook: every operation the engine returns is published
HookRedo(c, f) ==
    LET state == undoRedoStates[c][f]
        step  == RedoStep(state)
        ops   == createRedoOperations(step, nextId)
    IN  /\ step # <<>>
        /\ nextId + Len(step) - 1 <= MaxPublished
        /\ undoRedoStates' = [undoRedoStates EXCEPT ![c][f] = RedoState(state)]
        /\ engines' = [engines EXCEPT ![c][f] = applyOperations(@, ops, c)]
        /\ nextId' = nextId + Len(step)
            /\ Broadcast(c, ops)

\* finalizeBatches of the hook
HookFinalizeBatches(c) ==
    /\ \E f \in Fields : undoRedoStates[c][f].currentBatch # <<>>
    /\ undoRedoStates' = [undoRedoStates EXCEPT
                            ![c] = [f \in Fields |-> finalizeBatch(@[f])]]
    /\ UNCHANGED <<engines, nextId, last, others>>

\* two clients edit the field "content" with one character value, each
\* once startSync has run on it
NextSync ==
    \/ \E c \in Clients :
          /\ service[c].phase = "synced"
          /\ \E i \in 0..Len(Content(c, "content")) :
                HookInsertChar(c, "content", "a", i)
    \/ \E c \in Clients :
          /\ service[c].phase = "synced"
          /\ \E i \in 0..(Len(Content(c, "content")) - 1) :
                HookDeleteChar(c, "content", i)
    \/ \E c \in Clients : service[c].phase = "synced" /\ HookUndo(c, "content")
    \/ \E c \in Clients : service[c].phase = "synced" /\ HookRedo(c, "content")
    \/ \E c \in Clients : HookFinalizeBatches(c)
    \/ \E c \in Clients : ServerReceive(c)
    \/ \E c \in Clients : LoadRead(c)
    \/ \E c \in Clients : LoadProcess(c)
    \/ \E c \in Clients : StartSync(c)
    \/ \E c \in Clients : ListenerFires(c)

SpecSync == Init /\ [][NextSync]_vars

\* how the promise of broadcastOperation settles when its push was stored
\* (pushed) or refused: the catch block logs the error and does not throw
\* again, so the async function returns normally on both paths
broadcastOutcome(pushed) == "fulfilled"

\* the push of the oldest unanswered broadcastOperation of a client is
\* stored by the server and the await returns
PushSucceeds(c) ==
    /\ outbox[c] # <<>>
    /\ log' = Append(log, Head(outbox[c]))
    /\ stamps' = Append(stamps, LaterStamp)
    /\ outbox' = [outbox EXCEPT ![c] = Tail(@)]
    /\ last' = History(broadcastOutcome(TRUE), c, Head(outbox[c]).field, 0, "",
                       Head(outbox[c]), FALSE, FALSE, <<>>)
    /\ UNCHANGED <<engines, undoRedoStates, nextId, opset, delivered,
                   presenceVars, service>>

\* a PushFails that leaves the id among the processed ones
PushFails_KeepMark(c) ==
    /\ outbox[c] # <<>>
    /\ outbox' = [outbox EXCEPT ![c] = Tail(@)]
    /\ last' = History(broadcastOutcome(FALSE), c, Head(outbox[c]).field, 0, "",
                       Head(outbox[c]), FALSE, FALSE, <<>>)
    /\ UNCHANGED <<engines, undoRedoStates, nextId, opset, delivered,
                   presenceVars, log, stamps, service>>

\* the push is refused (the await throws): the catch block takes the id
\* out of processedOperations; nothing sends the operation again
PushFails(c) ==
    /\ outbox[c] # <<>>
    /\ outbox' = [outbox EXCEPT ![c] = Tail(@)]
    /\ service' = [service EXCEPT
                     ![c].processedOperations = @ \ {Head(outbox[c]).id}]
    /\ last' = History(broadcastOutcome(FALSE), c, Head(outbox[c]).field, 0, "",
                       Head(outbox[c]), FALSE, FALSE, <<>>)
    /\ UNCHANGED <<engines, undoRedoStates, nextId, opset, delivered,
                   presenceVars, log, stamps>>

\* two clients insert and delete in the field "content"; every push is
\* either stored or refused
NextPublish ==
    \/ \E c \in Clients :
          /\ service[c].phase = "synced"
          /\ \E i \in 0..Len(Content(c, "content")) :
                HookInsertChar(c, "content", "a", i)
    \/ \E c \in Clients :
          /\ service[c].phase = "synced"
          /\ \E i \in 0..(Len(Content(c, "content")) - 1) :
                HookDeleteChar(c, "content", i)
    \/ \E c \in Clients : PushSucceeds(c)
    \/ \E c \in Clients : PushFails(c)
    \/ \E c \in Clients : LoadRead(c)
    \/ \E c \in Clients : LoadProcess(c)
    \/ \E c \in Clients : StartSync(c)
    \/ \E c \in Clients : ListenerFires(c)

SpecPublish == Init /\ [][NextPublish]_vars

\* ------------------------------------------------- one session of the hook
\* local edits made in one session
MaxSessionEdits == 2

\* the record updatePresence sets at the user's presence path (lastSeen is
\* serverTimestamp())
PresenceData(cursorPosition, isTyping, activeField, t) ==
    [isOnline |-> TRUE, cursorPosition |-> cursorPosition,
     activeField |-> activeField, isTyping |-> isTyping, lastSeen |-> t,
     written |-> TRUE]

\* the record setOffline sets
OfflineData(t) ==
    [isOnline |-> FALSE, cursorPosition |-> 0, activeField |-> "",
     isTyping |-> FALSE, lastSeen |-> t, written |-> TRUE]

\* updatePresence of the hook, called by the editor of a mounted session
UpdatePresence(c, cursorPosition, isTyping, activeField) ==
    /\ ~service[c].cleaned
    /\ presence' = [presence EXCEPT
                      ![c] = PresenceData(cursorPosition, isTyping, activeField, now)]
    /\ last' = History("updatePresence", c, activeField, cursorPosition, "",
                       NoOp, FALSE, FALSE, <<>>)
    /\ UNCHANGED <<engines, undoRedoStates, nextId, opset, log, stamps,
                   outbox, service, delivered, now, participants>>

\* a tick of the interval of setupPresence: this.updatePresence(0, false)
HeartbeatTick(c) ==
    /\ service[c].heartbeat
    /\ presence' = [presence EXCEPT ![c] = PresenceData(0, FALSE, "content", now)]
    /\ last' = History("heartbeat", c, "", 0, "", NoOp, FALSE, FALSE, <<>>)
    /\ UNCHANGED <<engines, undoRedoStates, nextId, opset, log, stamps,
                   outbox, service, delivered, now, participants>>

\* cleanup(), run by the cleanup of the initialisation effect: setOffline,
\* every release in this.listeners, then the fields are reset.  A pending
\* loadAllOperations and the then attached to it are not cancelled.
Cleanup(c) ==
    /\ ~service[c].cleaned
    /\ presence' = [presence EXCEPT ![c] = OfflineData(now)]
    /\ service' = [service EXCEPT
                     ![c].cleaned = TRUE,
                     ![c].listening = FALSE,
                     ![c].heartbeat = FALSE,
                     ![c].processedOperations = {},
                     ![c].initialLoadComplete = FALSE,
                     ![c].lastProcessedTimestamp = 0]
    /\ UNCHANGED <<engines, undoRedoStates, nextId, last, opset, log, stamps,
                   outbox, delivered, now, participants>>

\* the server stores a push of the other user's session, in the same
\* millisecond as the entry before it (sameMs) or in a later one
RemoteAppend(operation, sameMs) ==
    /\ operation.id \notin Ids(log)
    /\ log' = Append(log, operation)
    /\ stamps' = Append(stamps, IF sameMs THEN SameStamp ELSE LaterStamp)
    /\ UNCHANGED <<engines, undoRedoStates, nextId, last, opset, outbox,
                   service, delivered, presenceVars>>

\* a task of client c may run: the callback of the then runs in the
\* microtask that follows the return of loadAllOperations, so no event
\* handler, timer or effect of the client runs between the two
TaskMayRun(c) == service[c].phase # "loaded"

\* one session of the local user from the construction of its service on:
\* the initialisation effect, edits at any point of it, presence, the
\* operations of the other user arriving in the log, and the cleanup
NextSession ==
    \/ LoadRead(LocalUser)
    \/ LoadProcess(LocalUser)
    \/ StartSync(LocalUser)
    \/ ListenerFires(LocalUser)
    \/ /\ TaskMayRun(LocalUser)
       /\ ~service[LocalUser].cleaned
       /\ nextId <= MaxSessionEdits
       /\ HookInsertChar(LocalUser, "content", "a", 0)
    \/ ServerReceive(LocalUser)
    \/ \E op \in RemoteOps, sameMs \in BOOLEAN : RemoteAppend(op, sameMs)
    \/ TaskMayRun(LocalUser) /\ UpdatePresence(LocalUser, 0, FALSE, "content")
    \/ TaskMayRun(LocalUser) /\ UpdatePresence(LocalUser, 2, TRUE, "title")
    \/ HeartbeatTick(LocalUser)
    \/ TaskMayRun(LocalUser) /\ Cleanup(LocalUser)

SpecSession == Init /\ [][NextSession]_vars

\* the session with its callbacks run in the end: the get is answered, the
\* then callback runs, and the value listener is called after a change of
\* the log
SpecSessionFair ==
    /\ Init
    /\ [][NextSession]_vars
    /\ WF_vars(LoadRead(LocalUser))
    /\ WF_vars(LoadProcess(LocalUser))
    /\ WF_vars(StartSync(LocalUser))
    /\ WF_vars(ListenerFires(LocalUser))

\* ------------------------------------------------ presence and freshness
\* the clock advances by TickStep milliseconds up to MaxNow
TickStep == 5000
MaxNow == 15000

\* a record counts as online for 10 seconds after its lastSeen
FreshnessWindow == 10000

\* time passes (Date.now() and the server clock together)
ClockTick ==
    /\ now < MaxNow
    /\ now' = now + TickStep
    /\ UNCHANGED <<engines, undoRedoStates, nextId, last, opset, log, stamps,
                   outbox, service, delivered, presence, participants>>

\* isCurrentlyOnline without the test of lastSeen
isCurrentlyOnline_FlagOnly(user, t) == user.isOnline

\* isCurrentlyOnline of listenToPresence, at Date.now() = t
isCurrentlyOnline(user, t) ==
    user.isOnline /\ (t - user.lastSeen) < FreshnessWindow

\* the user ids in the order of the keys of the presence node
UserIds == [k \in 1..Cardinality(Clients) |-> CHOOSE c \in Clients : CidRank(c) = k]

\* the participants the value listener of listenToPresence hands to its
\* callback at time t: every stored record with isOnline recomputed, the
\* online ones first (the sort is stable)
sortedParticipants(t) ==
    LET stored == SelectSeq(UserIds, LAMBDA u : presence[u].written)
        allParticipants ==
            [k \in 1..Len(stored) |->
               [userId |-> stored[k],
                cursorPosition |-> presence[stored[k]].cursorPosition,
                activeField |-> presence[stored[k]].activeField,
                isTyping |-> presence[stored[k]].isTyping,
                lastSeen |-> presence[stored[k]].lastSeen,
                isOnline |-> isCurrentlyOnline(presence[stored[k]], t)]]
    IN  SelectSeq(allParticipants, LAMBDA p : p.isOnline)
          \o SelectSeq(allParticipants, LAMBDA p : ~p.isOnline)

\* the value listener of listenToPresence of client c fires (the node
\* exists) and the hook stores what it is handed
PresenceCallback(c) ==
    /\ service[c].listening
    /\ \E u \in Clients : presence[u].written
    /\ participants' = [participants EXCEPT ![c] = sortedParticipants(now)]
    /\ UNCHANGED <<engines, undoRedoStates, nextId, last, opset, log, stamps,
                   outbox, service, delivered, presence, now>>

\* the sessions of both users, their presence writes, the clock and the
\* presence callbacks
NextPresence ==
    \/ \E c \in Clients : LoadRead(c)
    \/ \E c \in Clients : LoadProcess(c)
    \/ \E c \in Clients : StartSync(c)
    \/ \E c \in Clients : TaskMayRun(c) /\ UpdatePresence(c, 2, TRUE, "title")
    \/ \E c \in Clients : HeartbeatTick(c)
    \/ \E c \in Clients : TaskMayRun(c) /\ Cleanup(c)
    \/ \E c \in Clients : PresenceCallback(c)
    \/ ClockTick

SpecPresence == Init /\ [][NextPresence]_vars

\* --------------------------------------------- two fresh field engines
\* operations a third client built: two inserts and the delete of each of
\* the two characters, which that client holds under its own ids
Author == "C"

PermOps ==
    { [id |-> 201, type |-> "insert", field |-> "content",
       position |-> Pos(1, "0", Author), char |-> "a",
       charId |-> NoChar, clientId |-> Author],
      [id |-> 202, type |-> "delete", field |-> "content",
       position |-> Pos(1, "0", Author), char |-> "a",
       charId |-> 2013, clientId |-> Author],
      [id |-> 203, type |-> "insert", field |-> "content",
       position |-> Pos(2, "0", Author), char |-> "b",
       charId |-> NoChar, clientId |-> Author],
      [id |-> 204, type |-> "delete", field |-> "content",
       position |-> Pos(2, "0", Author), char |-> "b",
       charId |-> 2033, clientId |-> Author] }

\* the engines of the two clients are handed the same set of operations
InitPerm == InitCore /\ InitPresence /\ opset \in (SUBSET PermOps) \ {{}}

\* applyOperation with an operation of the set the engine has not been given
NextPerm ==
    \E c \in Clients, op \in opset :
        /\ ~HasOperation(engines[c][op.field], op.id)
        /\ ApplyOperation(c, op)

SpecPerm == InitPerm /\ [][NextPerm]_vars

\* ------------------------------------------------------------ properties
AllInserts(ops) == \A k \in 1..Len(ops) : ops[k].type = "insert"

\* C1: two engines that were given the same set of operations through
\* applyOperation, in whatever order each, show the same content
AppliedAll(c) ==
    \A op \in opset : HasOperation(engines[c][op.field], op.id)

C1_OrderIndependent ==
    (opset # {} /\ \A c \in Clients : AppliedAll(c))
        => \A f \in Fields : Content(LocalUser, f) = Content(RemoteUser, f)

\* C2: when every published operation has reached the log and every client
\* has processed the whole log, all clients show the same content in every
\* field
Delivered(c) ==
    /\ service[c].phase = "synced"
    /\ outbox[c] = <<>>
    /\ \A k \in 1..Len(log) : log[k].id \in service[c].processedOperations

C2_Convergence ==
    (\A c \in Clients : Delivered(c))
        => \A f \in Fields : Content(LocalUser, f) = Content(RemoteUser, f)

\* C3: an operation whose id the engine has already applied is a no-op: the
\* character set, the operation log and the visible content stay as they were
C3_DuplicateIsNoOp ==
    [][(last'.act = "applyOperation" /\ last'.dup)
          => /\ engines' = engines
             /\ ContentOf(engines', last'.client, last'.field) = Content(last'.client, last'.field)
      ]_vars

\* a second delivery of the remote insert, after it put its character in
C3_Witness ==
    /\ last.act = "applyOperation"
    /\ last.dup
    /\ last.op.type = "insert"
    /\ Content(last.client, last.field) # <<>>

\* C4: over insertChar, deleteChar, applyOperation, undo and redo, neither
\* the number of characters an engine holds nor the number of its tombstones
\* ever decreases
C4_CountsNeverDecrease ==
    [][\A c \in Clients, f \in Fields :
          /\ getStats(engines'[c][f]).totalCharacters
                >= getStats(engines[c][f]).totalCharacters
          /\ getStats(engines'[c][f]).deletedCharacters
                >= getStats(engines[c][f]).deletedCharacters]_vars

\* a local delete has tombstoned a character, and an undo came after it
C4_Witness ==
    /\ last.act = "undo"
    /\ last.idx > 0
    /\ getStats(engines[last.client][last.field]).deletedCharacters > 0
    /\ getStats(engines[last.client][last.field]).totalCharacters > 1

\* C5: for a closed batch of consecutive local inserts, undo followed by redo
\* leaves the visible content as it was before the undo
C5_UndoRedoRoundTrip ==
    (/\ last.act = "redo"
     /\ last.chained
     /\ AllInserts(undoRedoStates[last.client][last.field].undoStack[
            Len(undoRedoStates[last.client][last.field].undoStack)]))
        => Content(last.client, last.field) = last.pre0

\* C6: a local insert tracked while an insert batch is open and its timeout
\* has not passed joins that batch (so the n inserts become one Undo Step),
\* and one undo of a step of inserts leaves none of its characters visible
C6_BatchUndoneAtOnce ==
    [][/\ (/\ last'.act = "insertChar"
           /\ undoRedoStates[last'.client][last'.field].currentBatch # <<>>
           /\ AllInserts(undoRedoStates[last'.client][last'.field].currentBatch)
           /\ ~undoRedoStates[last'.client][last'.field].batchExpired)
          => /\ undoRedoStates'[last'.client][last'.field].currentBatch
                  = Append(undoRedoStates[last'.client][last'.field].currentBatch,
                           last'.op)
             /\ undoRedoStates'[last'.client][last'.field].undoStack
                  = undoRedoStates[last'.client][last'.field].undoStack
       /\ (/\ last'.act = "undo"
           /\ last'.idx > 0
           /\ AllInserts(UndoStep(undoRedoStates[last'.client][last'.field])))
          => LET step == UndoStep(undoRedoStates[last'.client][last'.field])
                 ids  == VisibleIdsOf(engines', last'.client, last'.field)
             IN  \A k \in 1..Len(step), i \in 1..Len(ids) :
                    ids[i] # generateCharId(last'.client, step[k])
      ]_vars

\* C7: a delete whose charId is not in the character set, and whose position
\* and value no character has, leaves a tombstoned character with that id and
\* the visible content unchanged
C7_DanglingDeleteTombstones ==
    [][(/\ last'.act = "applyOperation"
        /\ last'.op.type = "delete"
        /\ last'.field \in Fields
        /\ DeleteTarget(engines[last'.client][last'.field].characters, last'.op) = 0)
          => /\ \E i \in 1..Len(engines'[last'.client][last'.field].characters) :
                   /\ engines'[last'.client][last'.field].characters[i].id
                         = last'.op.charId
                   /\ engines'[last'.client][last'.field].characters[i].deleted
             /\ ContentOf(engines', last'.client, last'.field) = Content(last'.client, last'.field)
      ]_vars

\* the remote delete arrived at an engine that had no character for it: the
\* character with the remote id is there, while another one is visible
C7_Witness ==
    /\ last.act = "applyOperation"
    /\ last.op.type = "delete"
    /\ ~last.dup
    /\ \E i \in 1..Len(engines[last.client][last.field].characters) :
          /\ engines[last.client][last.field].characters[i].id = last.op.charId
          /\ engines[last.client][last.field].characters[i].deleted
    /\ Content(last.client, last.field) # <<>>

\* C8: after a local deleteChar of a visible character canUndo is true, and
\* the undo that follows restores the content the delete found
C8_DeleteIsUndoable ==
    [][/\ (last'.act = "deleteChar" /\ last'.op # NoOp)
          => canUndo(undoRedoStates'[last'.client][last'.field])
       /\ (/\ last.act = "deleteChar"
           /\ last.op # NoOp
           /\ last'.act = "undo"
           /\ last'.client = last.client
           /\ last'.field = last.field)
          => ContentOf(engines', last'.client, last'.field) = last.pre0
      ]_vars

\* C9: after rebuildContent the engine shows what a replay of its whole log
\* from the empty state shows, which is what it showed before the call
C9_RebuildKeepsState ==
    [][last'.act = "rebuildContent"
          => LET c == last'.client
                 f == last'.field
                 replay == applyOperations(NewEngine, engines[c][f].operations, c)
             IN  /\ ContentOf(engines', c, f) = getVisibleContent(replay.characters)
                 /\ getStats(engines'[c][f]) = getStats(replay)
                 /\ ContentOf(engines', c, f) = Content(c, f)
                 /\ getStats(engines'[c][f]) = getStats(engines[c][f])
      ]_vars

\* C10: insertChar(value, i) with 0 <= i <= len(s) turns the content s into
\* s[0..i) + value + s[i..): the new character is at visible index i and the
\* others keep their order
C10_InsertAtIndex ==
    [][(/\ last'.act = "insertChar"
        /\ last'.idx >= 0
        /\ last'.idx <= Len(Content(last'.client, last'.field)))
          => LET c   == last'.client
                 f   == last'.field
                 i   == last'.idx
                 s   == Content(c, f)
                 ids == VisibleIdsOf(engines, c, f)
             IN  /\ ContentOf(engines', c, f)
                       = SubSeq(s, 1, i) \o <<last'.char>> \o SubSeq(s, i + 1, Len(s))
                 /\ VisibleIdsOf(engines', c, f)
                       = SubSeq(ids, 1, i) \o <<generateCharId(c, last'.op)>>
                            \o SubSeq(ids, i + 1, Len(ids))
      ]_vars


\* C11: deleteChar with an index below zero or at or past the number of
\* visible characters returns no operation and changes nothing: the
\* characters, the operation log, the content and the undo/redo state of
\* every field stay as they were
C11_DeleteOutOfRangeIsNoOp ==
    [][\A c \in Clients, f \in Fields :
         (/\ last'.act = "deleteChar"
          /\ last'.client = c
          /\ last'.field = f
          /\ \/ last'.idx < 0
             \/ last'.idx >= Len(Content(c, f)))
         => /\ last'.op = NoOp
            /\ engines' = engines
            /\ undoRedoStates' = undoRedoStates
            /\ nextId' = nextId]_vars

\* a refused delete just past the end of a non-empty text with an open batch
C11_Witness ==
    /\ last.act = "deleteChar"
    /\ last.op = NoOp
    /\ Len(Content(last.client, last.field)) > 0
    /\ last.idx = Len(Content(last.client, last.field))
    /\ undoRedoStates[last.client][last.field].currentBatch # <<>>

\* C12: insertChar with an index below zero or above the number of visible
\* characters returns no operation and changes no state
C12_InsertOutOfRangeIsNoOp ==
    [][\A c \in Clients, f \in Fields :
         (/\ last'.act = "insertChar"
          /\ last'.client = c
          /\ last'.field = f
          /\ \/ last'.idx < 0
             \/ last'.idx > Len(Content(c, f)))
         => /\ last'.op = NoOp
            /\ engines' = engines
            /\ undoRedoStates' = undoRedoStates]_vars

\* C13: an operation whose clientId is not the local user, whether handed
\* to trackOperation or applied through applyOperation, changes no undo
\* stack, redo stack or open batch, and canUndo keeps its value
C13_RemoteNeverTracked ==
    [][\A c \in Clients :
         (/\ last'.act \in {"trackOperation", "applyOperation"}
          /\ last'.client = c
          /\ last'.op.clientId # c)
         => /\ undoRedoStates' = undoRedoStates
            /\ \A f \in Fields :
                 canUndo(undoRedoStates'[c][f]) = canUndo(undoRedoStates[c][f])]_vars

\* the other user's operation offered to trackOperation while a batch of
\* the same field and the same type is open and nothing can be undone yet
C13_Witness ==
    /\ last.act = "trackOperation"
    /\ last.op.clientId # last.client
    /\ last.op.field \in Fields
    /\ LET state == undoRedoStates[last.client][last.op.field]
       IN  /\ state.currentBatch # <<>>
           /\ state.currentBatch[Len(state.currentBatch)].type = last.op.type
           /\ ~canUndo(state)

\* C14: once a new local edit has been tracked in a field, the redo stack
\* of that field is empty and canRedo is false
C14_EditClearsRedo ==
    [][\A c \in Clients, f \in Fields :
         (/\ last'.act \in {"insertChar", "deleteChar"}
          /\ last'.client = c
          /\ last'.field = f
          /\ last'.op # NoOp)
         => /\ undoRedoStates'[c][f].redoStack = <<>>
            /\ ~canRedo(undoRedoStates'[c][f])]_vars

\* an insert made right after an undo: operation 2 is the inverse the undo
\* issued, so a step was waiting on the redo stack when operation 3 was
\* tracked
C14_Witness ==
    /\ last.act = "insertChar"
    /\ last.op.id = 3
    /\ LET ops == engines[last.client][last.field].operations
       IN  \E k \in 1..Len(ops) : ops[k].id = 2 /\ ops[k].charId < 0
    /\ ~canRedo(undoRedoStates[last.client][last.field])

C16_UndoClosesOpenBatch ==
    [][\A c \in Clients, f \in Fields :
         (/\ last'.act = "undo"
          /\ last'.client = c
          /\ last'.field = f
          /\ undoRedoStates[c][f].currentBatch # <<>>
          /\ undoRedoStates[c][f].undoStack = <<>>)
         => /\ undoRedoStates'[c][f].currentBatch = <<>>
            /\ last'.idx = Len(undoRedoStates[c][f].currentBatch)]_vars

\* C17: a local delete of a visible character, then undo, then redo, with
\* nothing else applied in between (the engine's log ends with the delete,
\* the undo's operations and the redo's operations): the content after the
\* redo is the content right after the delete, which is the content the
\* undo started from
C17_DeleteUndoRedo ==
    \A c \in Clients, f \in Fields :
      LET stack == undoRedoStates[c][f].undoStack
          step  == stack[Len(stack)]
          ops   == engines[c][f].operations
          n     == Len(step)
      IN  (/\ last.act = "redo"
           /\ last.client = c
           /\ last.field = f
           /\ last.chained
           /\ stack # <<>>
           /\ ~AllInserts(step)
           /\ \A k \in 1..n : step[k].type = "delete"
           /\ Len(ops) >= 3 * n
           /\ \A k \in 1..n : ops[Len(ops) - 3 * n + k].id = step[k].id)
          => Content(c, f) = last.pre0

\* C18: the inverse of an insert deletes exactly the inserted character:
\* every undo of a step of inserts that returns operations leaves none of
\* the characters visible that the step's inserts put into the field, the
\* ones put back by a redo of the step included
C18_UndoRemovesInserted ==
    [][\A c \in Clients, f \in Fields :
         (/\ last'.act = "undo"
          /\ last'.client = c
          /\ last'.field = f
          /\ last'.idx > 0
          /\ AllInserts(UndoStep(undoRedoStates[c][f])))
         => LET step   == UndoStep(undoRedoStates[c][f])
                ops    == engines'[c][f].operations
                ids    == VisibleIdsOf(engines', c, f)
                issued == {j \in 1..Len(ops) :
                             /\ ops[j].type = "insert"
                             /\ ops[j].clientId = c
                             /\ \E k \in 1..Len(step) :
                                  /\ ops[j].position = step[k].position
                                  /\ ops[j].char = step[k].char
                                  /\ ops[j].id >= step[k].id}
            IN  \A j \in issued, i \in 1..Len(ids) :
                   ids[i] # generateCharId(c, ops[j])]_vars

\* C19: broadcastOperation marks the id of the operation as processed
\* before the push is issued; the id is marked as long as the push is
\* unanswered and stays marked once the push is stored; when the push is
\* refused the id is not marked any more when broadcastOperation returns
C19_MarkedWhileInFlight ==
    [][\A c \in Clients :
         /\ \A k \in 1..Len(outbox'[c]) :
              outbox'[c][k].id \in service'[c].processedOperations
         /\ \A k \in 1..Len(log') :
              log'[k].clientId = c => log'[k].id \in service'[c].processedOperations
         /\ (/\ outbox[c] # <<>>
             /\ outbox'[c] = Tail(outbox[c])
             /\ log' = log)
            => Head(outbox[c]).id \notin service'[c].processedOperations]_vars

\* a refused push has returned: the operation is in the engine of its
\* client but neither in the log nor unanswered nor marked, while an earlier
\* operation of the same client is stored and marked
C19_Witness ==
    /\ last.op # NoOp
    /\ last.op.id \notin Ids(log)
    /\ last.op.id \notin Ids(outbox[last.client])
    /\ last.op.id \notin service[last.client].processedOperations
    /\ HasOperation(engines[last.client][last.op.field], last.op.id)
    /\ \E k \in 1..Len(log) :
         /\ log[k].clientId = last.client
         /\ log[k].id \in service[last.client].processedOperations

\* C20: when the push of an operation is refused, broadcastOperation lets
\* its caller know (its promise is rejected, unlike the promise of a stored
\* push) and the operation is not sent again
C20_FailureSurfaces ==
    [][\A c \in Clients :
         (/\ outbox[c] # <<>>
          /\ outbox'[c] = Tail(outbox[c])
          /\ log' = log)
         => /\ last'.op = Head(outbox[c])
            /\ last'.act = "rejected"
            /\ last'.act # broadcastOutcome(TRUE)
            /\ Head(outbox[c]).id \notin Ids(outbox'[c])]_vars

\* C21: within a session (cleanup has not run) no operation this client
\* created and published is handed to its onOperationReceived callback, by
\* loadAllOperations or by the listener, also when the edit was made while
\* loadAllOperations was waiting for its read
C21_NoEchoOfOwnOperation ==
    \A c \in Clients :
      ~service[c].cleaned
        => \A k \in 1..Len(delivered[c]) : delivered[c][k].clientId # c

\* C22: within a session the listener hands nothing to onOperationReceived
\* before loadAllOperations has handed out the history (every call made by
\* the listener comes after every call made by loadAllOperations, and only
\* once startSync has run), and no operation id is handed out twice, by
\* either of them
C22_HistoryFirstAndOnce ==
    \A c \in Clients :
      ~service[c].cleaned
        => /\ \A j, k \in 1..Len(delivered[c]) :
                j < k => /\ delivered[c][j].id # delivered[c][k].id
                         /\ ~(/\ delivered[c][j].via = "listen"
                              /\ delivered[c][k].via = "load")
           /\ (\E k \in 1..Len(delivered[c]) : delivered[c][k].via = "listen")
                => service[c].phase = "synced"

\* the history was handed out by loadAllOperations and a later operation of
\* the log by the listener
C22_Witness ==
    \E c \in Clients :
      /\ ~service[c].cleaned
      /\ Len(delivered[c]) >= 2
      /\ delivered[c][1].via = "load"
      /\ delivered[c][Len(delivered[c])].via = "listen"
      /\ delivered[c][Len(delivered[c])].ts > delivered[c][1].ts

\* C23: once loadAllOperations has completed and the listener is attached,
\* the listener hands a log entry to onOperationReceived only if its
\* timestamp is greater than the last-processed timestamp loadAllOperations
\* recorded and its id was not processed before
C23_ListenerDeliversOnlyNew ==
    [][\A c \in Clients :
         ~service[c].cleaned
           => \A k \in (Len(delivered[c]) + 1)..Len(delivered'[c]) :
                delivered'[c][k].via = "listen"
                  => /\ delivered'[c][k].ts > service[c].lastProcessedTimestamp
                     /\ delivered'[c][k].id \notin service[c].processedOperations]_vars

\* C24: applyOperation with an operation whose field is not a declared
\* field drops it: no field engine's characters, operation log or visible
\* content change, so the operation reaches no other field
C24_UnknownFieldDropped ==
    [][\A c \in Clients :
         (/\ last'.act = "applyOperation"
          /\ last'.client = c
          /\ last'.op.field \notin Fields)
         => /\ engines' = engines
            /\ \A f \in Fields : ContentOf(engines', c, f) = Content(c, f)]_vars

\* an operation of an undeclared field was handed to a client whose field
\* "content" holds text
C24_Witness ==
    /\ last.act = "applyOperation"
    /\ last.op.field \notin Fields
    /\ last.op.type = "insert"
    /\ Len(Content(last.client, "content")) > 0
    /\ \A f \in Fields : ~HasOperation(engines[last.client][f], last.op.id)

\* C25: once cleanup() of a session has run, no operations listener and no
\* heartbeat interval of that session is active and nothing more is handed
\* to its onOperationReceived callback, also when cleanup runs while
\* loadAllOperations is still pending
C25_TeardownReleasesAll ==
    [][\A c \in Clients :
         /\ service'[c].cleaned
              => ~service'[c].listening /\ ~service'[c].heartbeat
         /\ service[c].cleaned => delivered'[c] = delivered[c]]_vars

\* C26: the offline record written by cleanup() is the last presence write
\* of the session: once cleanup() has run, the presence record of the user
\* never says isOnline = true again
C26_OfflineWriteIsFinal ==
    \A c \in Clients : service[c].cleaned => ~presence[c].isOnline

\* C27: a heartbeat re-sends the presence of the user: the tick that follows
\* an updatePresence call leaves cursorPosition, activeField and isTyping as
\* that call wrote them (only lastSeen is refreshed)
C27_HeartbeatKeepsPresence ==
    [][\A c \in Clients :
         (/\ last.act = "updatePresence"
          /\ last.client = c
          /\ ~service[c].cleaned
          /\ last'.act = "heartbeat"
          /\ last'.client = c)
         => /\ presence'[c].cursorPosition = last.idx
            /\ presence'[c].cursorPosition = presence[c].cursorPosition
            /\ presence'[c].activeField = last.field
            /\ presence'[c].isTyping = presence[c].isTyping
            /\ presence'[c].isOnline]_vars

\* C28: a presence callback reports a participant online only if its stored
\* isOnline flag is true and its lastSeen is less than 10 seconds old; a
\* record whose lastSeen is older is reported offline although its stored
\* flag still says online
C28_OnlineOnlyIfFresh ==
    [][\A c \in Clients :
         (participants'[c] # participants[c] /\ UNCHANGED <<presence, now>>)
         => \A k \in 1..Len(participants'[c]) :
              LET p == participants'[c][k]
                  age == now - presence[p.userId].lastSeen
              IN  /\ p.isOnline
                       => presence[p.userId].isOnline /\ age < FreshnessWindow
                  /\ age >= FreshnessWindow => ~p.isOnline]_vars

\* a callback has reported offline a record that is stored as online and
\* whose lastSeen is 10 seconds old or more
C28_Witness ==
    \E c \in Clients : \E k \in 1..Len(participants[c]) :
        LET p == participants[c][k]
        IN  /\ ~p.isOnline
            /\ presence[p.userId].isOnline
            /\ presence[p.userId].lastSeen = p.lastSeen
            /\ now - p.lastSeen >= FreshnessWindow

\* C29: generatePosition between two positions prev < next that
\* generatePosition built (between-insertions included) returns a key
\* strictly between them: an insertChar between two visible neighbours gives
\* its operation a position after the one and before the other
C29_BetweenIsStrictlyBetween ==
    [][(/\ last'.act = "insertChar"
        /\ last'.op # NoOp)
          => LET sorted == getSortedVisibleChars(
                               engines[last'.client][last'.field].characters)
                 prev == PositionAt(sorted, last'.idx - 1)
                 next == PositionAt(sorted, last'.idx)
             IN  (/\ prev # NoPos
                  /\ next # NoPos
                  /\ comparePositions(prev, next) < 0)
                 => /\ last'.op.position
                          = generatePosition(prev, next, last'.client)
                    /\ comparePositions(prev, last'.op.position) < 0
                    /\ comparePositions(last'.op.position, next) < 0
      ]_vars

\* C30: the batching window is measured from the last addition: a local
\* operation of the kind of the open batch of its field, made while the
\* timeout set at the last addition is still pending, is appended to that
\* batch, however long ago the batch was opened
C30_WindowFromLastAddition ==
    [][\A c \in Clients, f \in Fields :
         (/\ last'.act \in {"insertChar", "deleteChar"}
          /\ last'.client = c
          /\ last'.field = f
          /\ last'.op # NoOp
          /\ undoRedoStates[c][f].currentBatch # <<>>
          /\ undoRedoStates[c][f].currentBatch[
                 Len(undoRedoStates[c][f].currentBatch)].type = last'.op.type
          /\ undoRedoStates[c][f].batchTimer = "pending")
         => /\ undoRedoStates'[c][f].currentBatch
                 = Append(undoRedoStates[c][f].currentBatch, last'.op)
            /\ undoRedoStates'[c][f].undoStack = undoRedoStates[c][f].undoStack
      ]_vars

\* C31: undo(field) on a step o1..on returns exactly n operations, the i-th
\* being the inverse of o(n+1-i): insert and delete exchanged, the same
\* field, position and character value, the local user as author, and an id
\* that no operation applied before has (the returned operations are the
\* ones the undo appends to the log of the field engine; the step is the
\* one the undo moved onto the redo stack)
C31_UndoReturnsInverses ==
    [][\A c \in Clients, f \in Fields :
         (/\ last'.act = "undo"
          /\ last'.client = c
          /\ last'.field = f
          /\ last'.idx > 0)
         => LET redo == undoRedoStates'[c][f].redoStack
                step == redo[Len(redo)]
                n    == Len(step)
                old  == engines[c][f].operations
                new  == engines'[c][f].operations
            IN  /\ Len(redo) = Len(undoRedoStates[c][f].redoStack) + 1
                /\ last'.idx = n
                /\ Len(new) = Len(old) + n
                /\ SubSeq(new, 1, Len(old)) = old
                /\ \A i \in 1..n :
                     LET r == new[Len(old) + i]
                         o == step[n + 1 - i]
                     IN  /\ r.type = (IF o.type = "insert" THEN "delete"
                                                          ELSE "insert")
                         /\ r.field = o.field
                         /\ r.position = o.position
                         /\ r.char = o.char
                         /\ r.clientId = c
                         /\ \A k \in 1..(Len(old) + i - 1) : new[k].id # r.id
      ]_vars

\* an undo has returned the inverses of a step of two operations
C31_Witness ==
    /\ last.act = "undo"
    /\ last.idx = 2
    /\ LET redo == undoRedoStates[last.client][last.field].redoStack
       IN  /\ redo # <<>>
           /\ redo[Len(redo)][1].position # redo[Len(redo)][2].position

\* C32: tombstones are permanent: a character whose deleted flag is true is
\* still in the character set with the flag true after every insertChar,
\* deleteChar, applyOperation, undo and redo; text that comes back is a
\* character with an id the set did not hold
C32_TombstonesPermanent ==
    [][\A c \in Clients, f \in Fields :
         LET old == engines[c][f].characters
             new == engines'[c][f].characters
         IN  /\ \A i \in 1..Len(old) :
                   old[i].deleted
                     => \E j \in 1..Len(new) :
                           new[j].id = old[i].id /\ new[j].deleted
             /\ \A j \in 1..Len(new) :
                   (/\ ~new[j].deleted
                    /\ \E i \in 1..Len(old) :
                          /\ old[i].deleted
                          /\ old[i].position = new[j].position
                          /\ old[i].char = new[j].char)
                     => \/ \E i \in 1..Len(old) : old[i] = new[j]
                        \/ \A i \in 1..Len(old) : old[i].id # new[j].id
      ]_vars

\* an undo of a delete has brought the text back next to its tombstone
C32_Witness ==
    /\ last.act = "undo"
    /\ last.idx > 0
    /\ LET chars == engines[last.client][last.field].characters
       IN  \E i, j \in 1..Len(chars) :
              /\ chars[i].deleted
              /\ ~chars[j].deleted
              /\ chars[i].position = chars[j].position
              /\ chars[i].char = chars[j].char
              /\ chars[i].id # chars[j].id

\* C33: a delete that deleteChar built on one replica, applied on another
\* replica after the insert that created the deleted character, tombstones
\* there the character of that insert and no other one, also among
\* characters of the same position and value: on every replica the
\* character of an insert is tombstoned if a later delete of another client
\* names it, and every tombstone is named by a delete of the log
C33_DeleteHitsItsCharacter ==
    \A b \in Clients, f \in Fields :
        LET ops   == engines[b][f].operations
            chars == engines[b][f].characters
            Names(j, i) ==
                /\ i < j
                /\ ops[i].type = "insert"
                /\ ops[j].type = "delete"
                /\ ops[j].charId = generateCharId(ops[j].clientId, ops[i])
        IN  /\ \A i, j \in 1..Len(ops) :
                  (Names(j, i) /\ ops[j].clientId # b)
                    => \E x \in 1..Len(chars) :
                          /\ chars[x].id = generateCharId(b, ops[i])
                          /\ chars[x].deleted
            /\ \A x \in 1..Len(chars) :
                  chars[x].deleted
                    => \E j \in 1..Len(ops) :
                          /\ ops[j].type = "delete"
                          /\ \/ ops[j].charId = chars[x].id
                             \/ \E i \in 1..Len(ops) :
                                   /\ Names(j, i)
                                   /\ chars[x].id = generateCharId(b, ops[i])

\* C34: fields are isolated: insertChar, deleteChar, applyOperation, undo
\* and redo on one field leave the character set, the operation log, the
\* visible content, the undo stack, the redo stack and the open batch of
\* every other field as they were
C34_FieldsIsolated ==
    [][\A c \in Clients, f \in Fields :
         (/\ last'.act \in {"insertChar", "deleteChar", "applyOperation",
                            "undo", "redo"}
          /\ last'.client = c
          /\ last'.field = f)
         => \A g \in Fields \ {f} :
               /\ engines'[c][g].characters = engines[c][g].characters
               /\ engines'[c][g].operations = engines[c][g].operations
               /\ ContentOf(engines', c, g) = Content(c, g)
               /\ undoRedoStates'[c][g].undoStack = undoRedoStates[c][g].undoStack
               /\ undoRedoStates'[c][g].redoStack = undoRedoStates[c][g].redoStack
               /\ undoRedoStates'[c][g].currentBatch
                     = undoRedoStates[c][g].currentBatch
      ]_vars

\* an undo in "title" has returned operations while "content" holds a
\* character, an open batch and a step to redo
C34_Witness ==
    /\ last.act = "undo"
    /\ last.field = "title"
    /\ last.idx > 0
    /\ Content(last.client, "content") # <<>>
    /\ undoRedoStates[last.client]["content"].currentBatch # <<>>
    /\ undoRedoStates[last.client]["title"].redoStack # <<>>

\* C35: a tracked local operation that is followed by no other call on its
\* field does not stay in an open batch: the batch whose last addition is
\* operation k is closed in the end (or another call has touched it), and a
\* batch the timer closes is then the top step of the undo stack, with
\* canUndo true and no flush needed
C35_TimerClosesBatch ==
    /\ \A k \in 1..MaxId :
          LET open == undoRedoStates[LocalUser]["content"].currentBatch
              isLast == open # <<>> /\ open[Len(open)].id = k
          IN  isLast ~> ~isLast
    /\ [][\A c \in Clients, f \in Fields :
            (/\ last'.act = "timer"
             /\ last'.client = c
             /\ last'.field = f
             /\ undoRedoStates[c][f].currentBatch # <<>>)
            => LET stack == undoRedoStates'[c][f].undoStack
               IN  /\ undoRedoStates'[c][f].currentBatch = <<>>
                   /\ canUndo(undoRedoStates'[c][f])
                   /\ stack # <<>>
                   /\ stack[Len(stack)] = undoRedoStates[c][f].currentBatch
                   /\ \/ SubSeq(stack, 1, Len(stack) - 1)
                            = undoRedoStates[c][f].undoStack
                      \/ /\ Len(undoRedoStates[c][f].undoStack) = MaxUndoSteps
                         /\ SubSeq(stack, 1, Len(stack) - 1)
                               = Tail(undoRedoStates[c][f].undoStack)
       ]_vars

\* the timer has closed a batch of two operations, which is the only step
\* of the undo stack
C35_Witness ==
    /\ last.act = "timer"
    /\ undoRedoStates[last.client][last.field].currentBatch = <<>>
    /\ Len(undoRedoStates[last.client][last.field].undoStack) = 1
    /\ Len(undoRedoStates[last.client][last.field].undoStack[1]) = 2

\* C36: in every reachable state of a field no two characters that are not
\* tombstoned have the same position, so that the positions alone fix the
\* order of the visible content
C36_VisiblePositionsDistinct ==
    \A c \in Clients, f \in Fields :
        LET chars == engines[c][f].characters
        IN  \A i, j \in 1..Len(chars) :
               (i # j /\ ~chars[i].deleted /\ ~chars[j].deleted)
                 => chars[i].position # chars[j].position

\* C37: every operation the other user has in the log while the session of
\* this client is active is delivered to the apply callback of this client
\* in the end (or the session has been cleaned up), whatever timestamp the
\* server gave it relative to the entries already processed
C37_LoggedIsDelivered ==
    \A op \in RemoteOps :
        (/\ op.id \in Ids(log)
         /\ ~service[LocalUser].cleaned)
        ~> (\/ service[LocalUser].cleaned
            \/ \E k \in 1..Len(delivered[LocalUser]) :
                  delivered[LocalUser][k].id = op.id)

\* the listener has delivered an operation of the other user whose
\* timestamp is not later than the one the initial load ended with
C37_Witness ==
    /\ ~service[LocalUser].cleaned
    /\ service[LocalUser].lastProcessedTimestamp > 0
    /\ \E k \in 1..Len(delivered[LocalUser]) :
          /\ delivered[LocalUser][k].via = "listen"
          /\ delivered[LocalUser][k].clientId # LocalUser
          /\ delivered[LocalUser][k].ts <= service[LocalUser].lastProcessedTimestamp

\* C38: the availability booleans agree with the operations: canUndo(field)
\* is true exactly when undo(field) would return operations, and
\* canRedo(field) exactly when redo(field) would
C38_AvailabilityAgrees ==
    [][\A c \in Clients, f \in Fields :
         /\ (last'.act = "undo" /\ last'.client = c /\ last'.field = f)
               => (canUndo(undoRedoStates[c][f]) <=> last'.idx > 0)
         /\ (last'.act = "redo" /\ last'.client = c /\ last'.field = f)
               => (canRedo(undoRedoStates[c][f]) <=> last'.idx > 0)
      ]_vars

\* an undo has returned nothing on a field with an open batch and an empty
\* undo stack, where canUndo is false
C38_Witness ==
    /\ last.act = "undo"
    /\ last.idx = 0
    /\ undoRedoStates[last.client][last.field].currentBatch # <<>>
    /\ ~canUndo(undoRedoStates[last.client][last.field])

\* C39: in every reachable state of the undo manager a field with a
\* non-empty redo stack has no open batch
C39_NoRedoWithOpenBatch ==
    \A c \in Clients, f \in Fields :
        undoRedoStates[c][f].redoStack # <<>>
          => undoRedoStates[c][f].currentBatch = <<>>

\* an undo has left a step on the redo stack and closed the batch it found
C39_Witness ==
    /\ last.act = "undo"
    /\ last.idx > 0
    /\ undoRedoStates[last.client][last.field].redoStack # <<>>
    /\ undoRedoStates[last.client][last.field].currentBatch = <<>>
    /\ Len(undoRedoStates[last.client][last.field].undoStack) > 0

====
